---- MODULE Spec2Model ----
(***************************************************************************)
(* Aircraft tracker (src/app.py): the OpenSky snapshot fetcher, the        *)
(* positional-array decoding of state vectors, the retry wrapper with      *)
(* exponential backoff, and the presentation data derived by create_map /  *)
(* update_map.                                                             *)
(*                                                                         *)
(* JSON / Python values are encoded as pairs <<tag, n>>:                   *)
(*   <<"null",0>>  None          <<"num",n>>  the number n                 *)
(*   <<"str",c>>   a string, c = 0 being the empty string                  *)
(*   <<"bool",b>>  False (0) / True (1)                                    *)
(* so that Python truthiness and "is not None" can be computed.            *)
(*                                                                         *)
(* An exception is a value: an operator that models code which may raise   *)
(* returns a record whose exc field names the exception ("none" if none).  *)
(*                                                                         *)
(* Variables                                                               *)
(*   pc            "idle", "running" (inside the loop of get_states) or    *)
(*                 "done" (the call has returned)                          *)
(*   caller        "ui": update_map(region) from the widgets;              *)
(*                 "direct": get_states(bounds, max_retries) on its own    *)
(*   region        the region of the refresh                               *)
(*   request       the bbox passed to api.get_states (<<>> for none)       *)
(*   max_retries   the parameter of get_states                             *)
(*   attempt       the loop variable of get_states                         *)
(*   attempts      number of calls of api.get_states made (history)        *)
(*   sleeps        durations passed to time.sleep, in order (history)      *)
(*   firstFetch    what the first fetcher call gave (history)              *)
(*   allNone       every fetcher call so far returned None (history)       *)
(*   allEmpty      every fetcher call so far returned a snapshot without   *)
(*                 records (history)                                       *)
(*   lastHttp      outcome of the last requests.get                        *)
(*   lastFetch     what the last api.get_states call did                   *)
(*   wrapperResult the value returned by get_states                        *)
(*   outputs       the (map, chart, statistics) triple of update_map       *)
(*   escaped       the exception that left update_map, "none" if none      *)
(*   raw, mapped   argument and result of State(state_array) (SpecMap)     *)
(***************************************************************************)
EXTENDS Integers, Sequences, FiniteSets, TLC

VARIABLES pc, caller, region, request, max_retries, attempt, attempts, sleeps,
          firstFetch, allNone, allEmpty, lastHttp, lastFetch, wrapperResult, outputs,
          escaped, raw, mapped

vars == <<pc, caller, region, request, max_retries, attempt, attempts, sleeps,
          firstFetch, allNone, allEmpty, lastHttp, lastFetch, wrapperResult, outputs,
          escaped, raw, mapped>>

refreshVars == <<pc, caller, region, request, max_retries, attempt, attempts,
                 sleeps, firstFetch, allNone, allEmpty, lastHttp, lastFetch,
                 wrapperResult, outputs, escaped>>

mapVars == <<raw, mapped>>

----------------------------------------------------------------------------
(* Bounds of the model *)

MaxRetriesBound == 8

MaxRecords == 3

MaxDirectRecords == 1

MaxArrayLen == 18

(* Program constants *)

DefaultMaxRetries == 3

BackoffCap == 60

ExceptSleep == 5

HttpOk == 200

HttpUnauthorized == 401

----------------------------------------------------------------------------
(* Values *)

Null == <<"null", 0>>

Num(n) == <<"num", n>>

Str(c) == <<"str", c>>

(* Python truthiness of a JSON scalar: None, 0, "" and False are falsy *)
Truthy(v) == v[1] # "null" /\ v[2] # 0

IsNotNone(v) == v[1] # "null"

Min(a, b) == IF a < b THEN a ELSE b

Abs(n) == IF n < 0 THEN -n ELSE n

RECURSIVE SeqSum(_)
SeqSum(s) == IF s = <<>> THEN 0 ELSE Head(s)[2] + SeqSum(Tail(s))

----------------------------------------------------------------------------
(* State.__init__ : positional array -> named record *)

NullState ==
    [icao24 |-> Null, callsign |-> Null, origin_country |-> Null,
     time_position |-> Null, last_contact |-> Null, longitude |-> Null,
     latitude |-> Null, geo_altitude |-> Null, on_ground |-> Null,
     velocity |-> Null, true_track |-> Null, vertical_rate |-> Null,
     sensors |-> Null, baro_altitude |-> Null, squawk |-> Null,
     spi |-> Null, position_source |-> Null]

(* indices read without a length guard (lines 72-83) *)
MandatoryIdx == 0 .. 11

(* state_array[i] if len(state_array) > i else None *)
Opt(a, i) == IF Len(a) > i THEN a[i + 1] ELSE Null

State_sensorsMandatory(a) ==
    IF \E i \in 0 .. 12 : i >= Len(a)
    THEN [exc |-> "IndexError", rec |-> NullState]
    ELSE [exc |-> "none",
          rec |-> [icao24 |-> a[1], callsign |-> a[2], origin_country |-> a[3],
                   time_position |-> a[4], last_contact |-> a[5],
                   longitude |-> a[6], latitude |-> a[7],
                   geo_altitude |-> a[8], on_ground |-> a[9],
                   velocity |-> a[10], true_track |-> a[11],
                   vertical_rate |-> a[12], sensors |-> a[13],
                   baro_altitude |-> Opt(a, 13), squawk |-> Opt(a, 14),
                   spi |-> Opt(a, 15), position_source |-> Opt(a, 16)]]

State_shiftedExtended(a) ==
    IF \E i \in MandatoryIdx : i >= Len(a)
    THEN [exc |-> "IndexError", rec |-> NullState]
    ELSE [exc |-> "none",
          rec |-> [icao24 |-> a[1], callsign |-> a[2], origin_country |-> a[3],
                   time_position |-> a[4], last_contact |-> a[5],
                   longitude |-> a[6], latitude |-> a[7],
                   geo_altitude |-> a[8], on_ground |-> a[9],
                   velocity |-> a[10], true_track |-> a[11],
                   vertical_rate |-> a[12], sensors |-> Opt(a, 12),
                   baro_altitude |-> Opt(a, 13), squawk |-> Opt(a, 14),
                   spi |-> Opt(a, 14), position_source |-> Opt(a, 16)]]

State(a) ==
    IF \E i \in MandatoryIdx : i >= Len(a)
    THEN [exc |-> "IndexError", rec |-> NullState]
    ELSE [exc |-> "none",
          rec |-> [icao24 |-> a[1], callsign |-> a[2], origin_country |-> a[3],
                   time_position |-> a[4], last_contact |-> a[5],
                   longitude |-> a[6], latitude |-> a[7],
                   geo_altitude |-> a[8], on_ground |-> a[9],
                   velocity |-> a[10], true_track |-> a[11],
                   vertical_rate |-> a[12], sensors |-> Opt(a, 12),
                   baro_altitude |-> Opt(a, 13), squawk |-> Opt(a, 14),
                   spi |-> Opt(a, 15), position_source |-> Opt(a, 16)]]

----------------------------------------------------------------------------
(* StateVector.__init__ : parsed JSON body -> snapshot *)

NoSnapshot == [isNone |-> TRUE, time |-> Null, states |-> <<>>]

RECURSIVE MapStates(_)
(* the loop of lines 67-68; the first State() that raises ends it *)
MapStates(arrays) ==
    IF arrays = <<>> THEN [exc |-> "none", states |-> <<>>]
    ELSE LET h == State(Head(arrays))
         IN IF h.exc # "none" THEN [exc |-> h.exc, states |-> <<>>]
            ELSE LET t == MapStates(Tail(arrays))
                 IN IF t.exc # "none" THEN t
                    ELSE [exc |-> "none", states |-> <<h.rec>> \o t.states]

(* body: [kind, time, stag, states]; kind "object" is a JSON object,       *)
(* "array" another JSON value (no .get), "malformed" makes json() raise;   *)
(* stag says whether the 'states' key is "missing", "null" or a "list".    *)
StateVector(body) ==
    IF body.kind = "array" THEN [exc |-> "AttributeError", ret |-> NoSnapshot]
    ELSE LET t == IF body.time[1] = "missing" THEN Num(0) ELSE body.time
             truthyStates == body.stag = "list" /\ Len(body.states) > 0
             m == IF truthyStates THEN MapStates(body.states)
                  ELSE [exc |-> "none", states |-> <<>>]
         IN IF m.exc # "none" THEN [exc |-> m.exc, ret |-> NoSnapshot]
            ELSE [exc |-> "none",
                  ret |-> [isNone |-> FALSE, time |-> t, states |-> m.states]]

----------------------------------------------------------------------------
(* OpenSkyApi.get_states : one HTTP request -> snapshot or None *)

(* the body of the try block, lines 41-56 *)
FetchTry(http) ==
    IF http.kind # "response" THEN [exc |-> http.kind, ret |-> NoSnapshot]
    ELSE IF http.status = HttpOk
         THEN IF http.body.kind = "malformed"
              THEN [exc |-> "JSONDecodeError", ret |-> NoSnapshot]
              ELSE StateVector(http.body)
         ELSE IF http.status = HttpUnauthorized
              THEN [exc |-> "none", ret |-> NoSnapshot]
              ELSE [exc |-> "none", ret |-> NoSnapshot]

ApiGetStates_raise401(http) ==
    LET r == FetchTry(http)
    IN IF http.kind = "response" /\ http.status = HttpUnauthorized
       THEN [exc |-> "AuthError", ret |-> NoSnapshot]
       ELSE IF r.exc # "none" THEN [exc |-> "none", ret |-> NoSnapshot] ELSE r

ApiGetStates_mappingOutsideTry(http) ==
    LET r == FetchTry(http)
    IN IF r.exc \in {"IndexError", "AttributeError"} THEN r
       ELSE IF r.exc # "none" THEN [exc |-> "none", ret |-> NoSnapshot] ELSE r

(* try ... except Exception: return None  (lines 40, 57-59) *)
ApiGetStates(http) ==
    LET r == FetchTry(http)
    IN IF r.exc # "none" THEN [exc |-> "none", ret |-> NoSnapshot] ELSE r

----------------------------------------------------------------------------
(* get_states(bounds, max_retries) : one iteration of the retry loop *)

NoData == [isNone |-> TRUE, states |-> <<>>]

(* wait_time = min(2 ** attempt, 60) *)
WaitTime_uncapped(a) == 2 ^ a

WaitTime(a) == Min(2 ^ a, BackoffCap)

(* if states and states.states *)
HasData_acceptEmpty(snap) == ~snap.isNone

HasData(snap) == ~snap.isNone /\ Len(snap.states) > 0

(* the negation of "attempt < max_retries - 1" *)
IsLast(a, n) == ~(a < n - 1)

(* fetch: what api.get_states did; a: attempt index; n: max_retries.      *)
(* step "return" ends the loop with value; step "sleep" waits and goes on *)
WrapperIter(fetch, a, n) ==
    IF fetch.exc = "none"
    THEN IF HasData(fetch.ret)
         THEN [step |-> "return", wait |-> 0,
               value |-> [isNone |-> FALSE, states |-> fetch.ret.states]]
         ELSE IF ~IsLast(a, n)
              THEN [step |-> "sleep", wait |-> WaitTime(a), value |-> NoData]
              ELSE [step |-> "return", wait |-> 0, value |-> NoData]
    ELSE IF ~IsLast(a, n)
         THEN [step |-> "sleep", wait |-> ExceptSleep, value |-> NoData]
         ELSE [step |-> "return", wait |-> 0, value |-> NoData]

----------------------------------------------------------------------------
(* Region presets, create_map lines 208-213 *)

Regions == {"world", "europe", "north_america", "asia"}

NoBounds == [none |-> TRUE, lamin |-> 0, lomin |-> 0, lamax |-> 0, lomax |-> 0]

RegionBounds(r) ==
    CASE r = "europe" ->
           [none |-> FALSE, lamin |-> 35, lomin |-> -15, lamax |-> 60, lomax |-> 40]
      [] r = "north_america" ->
           [none |-> FALSE, lamin |-> 25, lomin |-> -130, lamax |-> 50, lomax |-> -60]
      [] r = "asia" ->
           [none |-> FALSE, lamin |-> 10, lomin |-> 60, lamax |-> 50, lomax |-> 150]
      [] OTHER -> NoBounds

(* bbox = (lamin, lamax, lomin, lomax) when bounds is truthy, else no bbox *)
Bbox(b) == IF b.none THEN <<>> ELSE <<b.lamin, b.lamax, b.lomin, b.lomax>>

----------------------------------------------------------------------------
(* create_map : the presentation data derived from the record list *)

NA == <<"N/A", 0>>

(* str(None) inside an f-string *)
PyNone == <<"None", 0>>

(* x if x else 'N/A' *)
OrNA(v) == IF Truthy(v) THEN v ELSE NA

(* f"{x}" : None is printed as the text None *)
Fmt(v) == IF v[1] = "null" THEN PyNone ELSE v

(* if state.latitude and state.longitude *)
Plotted(s) == Truthy(s.latitude) /\ Truthy(s.longitude)

Marker(s) ==
    [location |-> <<s.latitude, s.longitude>>,
     callsign |-> OrNA(s.callsign),
     altitude |-> OrNA(s.geo_altitude),
     velocity |-> OrNA(s.velocity),
     origin   |-> Fmt(s.origin_country),
     rotation |-> IF Truthy(s.true_track) THEN s.true_track ELSE Num(0)]

RECURSIVE Markers(_)
Markers(states) ==
    IF states = <<>> THEN <<>>
    ELSE IF Plotted(Head(states))
         THEN <<Marker(Head(states))>> \o Markers(Tail(states))
         ELSE Markers(Tail(states))

RECURSIVE HeatData(_)
HeatData(states) ==
    IF states = <<>> THEN <<>>
    ELSE IF Plotted(Head(states))
         THEN <<<<Head(states).latitude, Head(states).longitude, 1>>>>
              \o HeatData(Tail(states))
         ELSE HeatData(Tail(states))

RECURSIVE Altitudes(_)
(* [s.geo_altitude for s in states if s.geo_altitude is not None] *)
Altitudes(states) ==
    IF states = <<>> THEN <<>>
    ELSE IF IsNotNone(Head(states).geo_altitude)
         THEN <<Head(states).geo_altitude>> \o Altitudes(Tail(states))
         ELSE Altitudes(Tail(states))

RECURSIVE Speeds(_)
(* [s.velocity for s in states if s.velocity is not None] *)
Speeds(states) ==
    IF states = <<>> THEN <<>>
    ELSE IF IsNotNone(Head(states).velocity)
         THEN <<Head(states).velocity>> \o Speeds(Tail(states))
         ELSE Speeds(Tail(states))

RECURSIVE Countries(_)
(* [s.origin_country for s in states if s.origin_country] *)
Countries(states) ==
    IF states = <<>> THEN <<>>
    ELSE IF Truthy(Head(states).origin_country)
         THEN <<Head(states).origin_country>> \o Countries(Tail(states))
         ELSE Countries(Tail(states))

Range(s) == {s[i] : i \in 1 .. Len(s)}

Count(s, x) == Cardinality({i \in 1 .. Len(s) : s[i] = x})

(* f"{x:.0f}" of the quotient total / cnt: round half to even; a negative *)
(* value that rounds to zero prints as -0                                  *)
FormatF0(total, cnt) ==
    LET q == Abs(total) \div cnt
        r == Abs(total) % cnt
        mag == IF 2 * r < cnt THEN q
               ELSE IF 2 * r > cnt THEN q + 1
               ELSE IF q % 2 = 0 THEN q ELSE q + 1
    IN IF total < 0 /\ mag = 0 THEN <<"negzero", 0>>
       ELSE IF total < 0 THEN <<"num", -mag>> ELSE <<"num", mag>>

(* np.mean(altitudes) formatted with :.0f ; the mean of an empty list is   *)
(* nan, and a non-numeric element makes np.mean raise                      *)
AvgAltitude(states) ==
    LET alts == Altitudes(states)
    IN IF Len(states) = 0 THEN [exc |-> "none", text |-> <<"num", 0>>]
       ELSE IF \E i \in 1 .. Len(alts) : alts[i][1] # "num"
       THEN [exc |-> "TypeError", text |-> <<"nan", 0>>]
       ELSE IF Len(alts) = 0 THEN [exc |-> "none", text |-> <<"nan", 0>>]
       ELSE [exc |-> "none", text |-> FormatF0(SeqSum(alts), Len(alts))]

EmptyFigure ==
    [empty |-> TRUE, altitudes |-> <<>>, speeds |-> <<>>, countries |-> {},
     pie |-> <<>>]

(* countries.value_counts().head(10) as a set of <<country, count>> *)
TopCountries(states) ==
    LET cs == Countries(states)
        D == Range(cs)
        k == Min(10, Cardinality(D))
        top == CHOOSE S \in SUBSET D :
                  /\ Cardinality(S) = k
                  /\ \A x \in S, y \in D \ S : Count(cs, x) >= Count(cs, y)
    IN {<<c, Count(cs, c)>> : c \in top}

(* create_monitoring_dashboard(states) *)
Dashboard(states) ==
    IF Len(states) = 0 THEN EmptyFigure
    ELSE [empty |-> FALSE, altitudes |-> Altitudes(states),
          speeds |-> Speeds(states), countries |-> TopCountries(states),
          pie |-> <<40, 30, 20, 10>>]

(* the base folium.Map of lines 202-206, nothing added to it *)
EmptyMap == [kind |-> "folium", markers |-> <<>>, heat |-> <<>>, heatLayer |-> FALSE]

FailedMap == [kind |-> "html", markers |-> <<>>, heat |-> <<>>, heatLayer |-> FALSE]

NoDataText ==
    [kind |-> "nodata", total |-> 0, countries |-> 0, avg |-> <<"none", 0>>,
     err |-> "none"]

ErrorText(e) ==
    [kind |-> "error", total |-> 0, countries |-> 0, avg |-> <<"none", 0>>,
     err |-> e]

NoOutputs == [map |-> EmptyMap, chart |-> EmptyFigure, stats |-> NoDataText]

(* if not data or not data['states'] *)
NoStates(data) == data.isNone \/ Len(data.states) = 0

CreateMap_noGuard(data) ==
    LET states == data.states
        avg == AvgAltitude(states)
    IN IF avg.exc # "none" THEN [exc |-> avg.exc, out |-> NoOutputs]
       ELSE [exc |-> "none",
             out |-> [map |-> [kind |-> "folium", markers |-> Markers(states),
                               heat |-> HeatData(states), heatLayer |-> TRUE],
                      chart |-> Dashboard(states),
                      stats |-> [kind |-> "stats", total |-> Len(states),
                                 countries |-> Cardinality(Range(Countries(states))),
                                 avg |-> avg.text, err |-> "none"]]]

(* create_map after get_states has returned data (lines 217-272); the     *)
(* "Last Updated" wall-clock line of the statistics is not modelled       *)
CreateMap(data) ==
    IF NoStates(data)
    THEN [exc |-> "none",
          out |-> [map |-> EmptyMap, chart |-> Dashboard(<<>>), stats |-> NoDataText]]
    ELSE LET states == data.states
             avg == AvgAltitude(states)
         IN IF avg.exc # "none" THEN [exc |-> avg.exc, out |-> NoOutputs]
            ELSE [exc |-> "none",
                  out |-> [map |-> [kind |-> "folium", markers |-> Markers(states),
                                    heat |-> HeatData(states), heatLayer |-> TRUE],
                           chart |-> Dashboard(states),
                           stats |-> [kind |-> "stats", total |-> Len(states),
                                      countries |-> Cardinality(Range(Countries(states))),
                                      avg |-> avg.text, err |-> "none"]]]

UpdateMapResult_propagate(data) == CreateMap(data)

(* update_map: try: return create_map(region) / except Exception *)
UpdateMapResult(data) ==
    LET r == CreateMap(data)
    IN IF r.exc # "none"
       THEN [exc |-> "none",
             out |-> [map |-> FailedMap, chart |-> EmptyFigure, stats |-> ErrorText(r.exc)]]
       ELSE r

----------------------------------------------------------------------------
(* Inputs: raw state arrays, response bodies, outcomes of the HTTP request *)

False == <<"bool", 0>>

(* a state array of the provider, cut to len elements *)
MkArray(len, cs, ctry, lon, lat, alt, vel, track) ==
    LET full == <<Str(9), cs, ctry, Num(1), Num(2), lon, lat, alt, False, vel,
                  track, Num(3), Null, Num(4), Str(5), False, Num(6)>>
    IN SubSeq(full, 1, len)

Flight == MkArray(17, Str(1), Str(1), Num(7), Num(5), Num(1000), Num(250), Num(90))

TooShort == MkArray(11, Str(1), Str(1), Num(7), Num(5), Num(1000), Num(250), Num(90))

(* arrays that State() accepts *)
Arrays ==
    { Flight,
      MkArray(13, Str(2), Str(2), Num(7), Num(5), Num(2000), Null, Null),
      MkArray(14, Null, Null, Null, Null, Null, Null, Null),
      MkArray(15, Str(0), Str(0), Num(7), Num(0), Num(0), Num(0), Num(0)),
      MkArray(12, Str(1), Str(2), Num(7), Num(5), Str(3), Num(250), Num(90)) }

SeqsUpTo(S, n) == UNION {[1 .. k -> S] : k \in 0 .. n}

NoBody == [kind |-> "text", time |-> <<"missing", 0>>, stag |-> "missing", states |-> <<>>]

Bodies(n) ==
    { [kind |-> "malformed", time |-> <<"missing", 0>>, stag |-> "missing", states |-> <<>>],
      [kind |-> "array", time |-> <<"missing", 0>>, stag |-> "missing", states |-> <<>>],
      [kind |-> "object", time |-> <<"missing", 0>>, stag |-> "missing", states |-> <<>>],
      [kind |-> "object", time |-> Num(1), stag |-> "null", states |-> <<>>] }
    \cup { [kind |-> "object", time |-> Num(1), stag |-> "list", states |-> l] :
              l \in SeqsUpTo(Arrays, n)
                     \cup SeqsUpTo({Flight, TooShort}, MaxDirectRecords + 1) }

ErrorStatuses == {HttpUnauthorized, 429, 500}

HttpOutcomes(n) ==
    { [kind |-> k, status |-> 0, body |-> NoBody] : k \in {"Timeout", "ConnectionError"} }
    \cup { [kind |-> "response", status |-> st, body |-> NoBody] : st \in ErrorStatuses }
    \cup { [kind |-> "response", status |-> HttpOk, body |-> b] : b \in Bodies(n) }

NoHttp == [kind |-> "unset", status |-> 0, body |-> NoBody]

NoFetch == [exc |-> "unset", ret |-> NoSnapshot]

NotMapped == [exc |-> "unset", rec |-> NullState]

(* what one fetcher call gave: "raised", "none", "empty" or "data" *)
FetchClass(f) ==
    IF f.exc # "none" THEN "raised"
    ELSE IF f.ret.isNone THEN "none"
    ELSE IF Len(f.ret.states) = 0 THEN "empty" ELSE "data"

----------------------------------------------------------------------------
(* The refresh cycle *)

Init ==
    /\ pc = "idle"
    /\ caller = "none"
    /\ region = "none"
    /\ request = <<>>
    /\ max_retries = DefaultMaxRetries
    /\ attempt = 0
    /\ attempts = 0
    /\ sleeps = <<>>
    /\ firstFetch = "unset"
    /\ allNone = TRUE
    /\ allEmpty = TRUE
    /\ lastHttp = NoHttp
    /\ lastFetch = NoFetch
    /\ wrapperResult = NoData
    /\ outputs = NoOutputs
    /\ escaped = "none"
    /\ raw = <<>>
    /\ mapped = NotMapped

(* entry of get_states(bounds, n): the loop variables before the first    *)
(* iteration; range(0) is empty and line 123 returns None at once         *)
Enter(who, r, b, n) ==
    /\ caller' = who
    /\ region' = r
    /\ request' = Bbox(b)
    /\ max_retries' = n
    /\ attempt' = 0
    /\ attempts' = 0
    /\ sleeps' = <<>>
    /\ firstFetch' = "unset"
    /\ allNone' = TRUE
    /\ allEmpty' = TRUE
    /\ lastHttp' = NoHttp
    /\ lastFetch' = NoFetch
    /\ wrapperResult' = NoData
    /\ outputs' = NoOutputs
    /\ escaped' = "none"
    /\ pc' = IF n > 0 THEN "running" ELSE "done"
    /\ UNCHANGED mapVars

(* refresh_btn.click / region_select.change -> update_map(region) ->      *)
(* create_map(region) -> get_states(bounds.get(region))                   *)
UpdateMap(r) ==
    /\ pc = "idle"
    /\ Enter("ui", r, RegionBounds(r), DefaultMaxRetries)

(* get_states(bounds, max_retries) called on its own *)
CallGetStates(b, n) ==
    /\ pc = "idle"
    /\ Enter("direct", "none", b, n)

(* one iteration of the retry loop: the HTTP request, the fetcher, the    *)
(* wrapper's decision and, when the loop ends inside a refresh, the rest  *)
(* of create_map and update_map                                           *)
Attempt ==
    /\ pc = "running"
    /\ \E http \in HttpOutcomes(IF caller = "ui" THEN MaxRecords ELSE MaxDirectRecords) :
         LET fetch == ApiGetStates(http)
             it == WrapperIter(fetch, attempt, max_retries)
             finished == it.step = "return" \/ ~(attempt + 1 < max_retries)
             res == IF caller = "ui" THEN UpdateMapResult(it.value)
                    ELSE [exc |-> "none", out |-> NoOutputs]
         IN /\ lastHttp' = http
            /\ lastFetch' = fetch
            /\ attempts' = attempts + 1
            /\ firstFetch' = IF attempts = 0 THEN FetchClass(fetch) ELSE firstFetch
            /\ allNone' = (allNone /\ FetchClass(fetch) = "none")
            /\ allEmpty' = (allEmpty /\ FetchClass(fetch) = "empty")
            /\ sleeps' = IF it.step = "sleep" THEN Append(sleeps, it.wait) ELSE sleeps
            /\ IF finished
               THEN /\ pc' = "done"
                    /\ attempt' = attempt
                    /\ wrapperResult' = it.value
                    /\ outputs' = res.out
                    /\ escaped' = res.exc
               ELSE /\ pc' = "running"
                    /\ attempt' = attempt + 1
                    /\ UNCHANGED <<wrapperResult, outputs, escaped>>
    /\ UNCHANGED <<caller, region, request, max_retries, mapVars>>

(* the call has returned: the snapshot and every local of the cycle are   *)
(* discarded, nothing is kept between calls                               *)
Return ==
    /\ pc = "done"
    /\ pc' = "idle"
    /\ caller' = "none"
    /\ region' = "none"
    /\ request' = <<>>
    /\ max_retries' = DefaultMaxRetries
    /\ attempt' = 0
    /\ attempts' = 0
    /\ sleeps' = <<>>
    /\ firstFetch' = "unset"
    /\ allNone' = TRUE
    /\ allEmpty' = TRUE
    /\ lastHttp' = NoHttp
    /\ lastFetch' = NoFetch
    /\ wrapperResult' = NoData
    /\ outputs' = NoOutputs
    /\ escaped' = "none"
    /\ UNCHANGED mapVars

DirectBounds == {NoBounds, RegionBounds("europe")}

Next ==
    \/ \E r \in Regions : UpdateMap(r)
    \/ \E b \in DirectBounds, n \in 0 .. MaxRetriesBound : CallGetStates(b, n)
    \/ Attempt
    \/ Return

Spec == Init /\ [][Next]_vars

----------------------------------------------------------------------------
(* The decoding of one state array, on its own *)

Templates == {"tokens", "nulls", "strings", "flight"}

RawInput(len, t) ==
    [i \in 1 .. len |->
        CASE t = "tokens" -> Num(100 + i)
          [] t = "nulls" -> Null
          [] t = "strings" -> Str(i)
          [] OTHER -> IF i <= 17
                      THEN Flight[i]
                      ELSE Num(i)]

InitMap ==
    /\ pc = "idle"
    /\ caller = "none"
    /\ region = "none"
    /\ request = <<>>
    /\ max_retries = DefaultMaxRetries
    /\ attempt = 0
    /\ attempts = 0
    /\ sleeps = <<>>
    /\ firstFetch = "unset"
    /\ allNone = TRUE
    /\ allEmpty = TRUE
    /\ lastHttp = NoHttp
    /\ lastFetch = NoFetch
    /\ wrapperResult = NoData
    /\ outputs = NoOutputs
    /\ escaped = "none"
    /\ \E len \in 0 .. MaxArrayLen, t \in Templates : raw = RawInput(len, t)
    /\ mapped = NotMapped

(* State(state_array) *)
MapState ==
    /\ mapped.exc = "unset"
    /\ mapped' = State(raw)
    /\ UNCHANGED <<raw, refreshVars>>

NextMap == MapState

SpecMap == InitMap /\ [][NextMap]_vars

----------------------------------------------------------------------------
(* Properties of the retry wrapper and the fetcher *)

(* C1: when the fetcher returned "no data" (None) on every call, the     *)
(* wrapper made exactly max_retries attempts, slept min(2^i, 60) seconds  *)
(* after attempt i for i = 0 .. max_retries - 2 (1, 2, 4, ..., never more *)
(* than 60), and its final result is None.                                *)
C1_AlwaysNoData ==
    allNone =>
        /\ \A i \in 1 .. Len(sleeps) :
              sleeps[i] = (IF 2 ^ (i - 1) < 60 THEN 2 ^ (i - 1) ELSE 60) /\ sleeps[i] <= 60
        /\ pc = "running" => attempts = attempt /\ Len(sleeps) = attempt
        /\ pc = "done" =>
              /\ attempts = max_retries
              /\ Len(sleeps) = (IF max_retries = 0 THEN 0 ELSE max_retries - 1)
              /\ wrapperResult.isNone

C1_Witness ==
    /\ pc = "done" /\ caller = "direct" /\ allNone
    /\ max_retries = 8 /\ attempts = 8
    /\ sleeps = <<1, 2, 4, 8, 16, 32, 60>>

(* C2: a snapshot with an empty record list is a failure and is retried   *)
(* like one; the wrapper stops at the first attempt whose snapshot has    *)
(* records, returns those records and makes no further attempt; so an     *)
(* empty first snapshot followed by a non-empty second one gives exactly  *)
(* two attempts and the second one's records.                             *)
C2_EmptyRetried ==
    [][ /\ pc = "running" =>
            /\ attempts' = attempts + 1
            /\ FetchClass(lastFetch') = "data" =>
                  /\ pc' = "done"
                  /\ wrapperResult' = [isNone |-> FALSE, states |-> lastFetch'.ret.states]
                  /\ sleeps' = sleeps
            /\ FetchClass(lastFetch') = "empty" =>
                  IF attempt + 1 < max_retries
                  THEN pc' = "running" /\ attempt' = attempt + 1 /\ Len(sleeps') = Len(sleeps) + 1
                  ELSE pc' = "done" /\ wrapperResult'.isNone
            /\ (attempts = 1 /\ firstFetch = "empty" /\ FetchClass(lastFetch') = "data") =>
                  attempts' = 2 /\ wrapperResult'.states = lastFetch'.ret.states
        /\ pc = "done" => pc' = "idle" /\ attempts' = 0
      ]_vars

C2_Witness ==
    /\ pc = "done" /\ firstFetch = "empty" /\ attempts = 2 /\ max_retries > 2
    /\ ~wrapperResult.isNone
    /\ Len(wrapperResult.states) > 0
    /\ wrapperResult.states = lastFetch.ret.states

(* the four kinds of failure of one attempt, read off the HTTP outcome *)
FailureKind(http) ==
    IF http.kind \in {"Timeout", "ConnectionError"} THEN "transport"
    ELSE IF http.status = 401 THEN "auth"
    ELSE IF http.status # 200 THEN "provider"
    ELSE IF http.body.kind # "object" THEN "transport"
    ELSE IF http.body.stag # "list" \/ http.body.states = <<>> THEN "empty"
    ELSE "other"

(* C3: an attempt that fails by HTTP 401, by another non-200 status, by a *)
(* transport or parse error, or by an empty result is followed by the     *)
(* same step whatever the kind: the sleep min(2^attempt, 60) and a retry, *)
(* or on the last attempt a None result, which a refresh shows as the     *)
(* "No data available" notice.                                            *)
C3_FailuresAlike ==
    [][ (pc = "running" /\ FailureKind(lastHttp') \in {"auth", "provider", "transport", "empty"}) =>
            IF attempt < max_retries - 1
            THEN /\ pc' = "running"
                 /\ attempt' = attempt + 1
                 /\ sleeps' = Append(sleeps, IF 2 ^ attempt < 60 THEN 2 ^ attempt ELSE 60)
            ELSE /\ pc' = "done"
                 /\ sleeps' = sleeps
                 /\ wrapperResult'.isNone
                 /\ caller = "ui" => outputs'.stats.kind = "nodata" /\ escaped' = "none"
      ]_vars

C3_Witness ==
    /\ pc = "done" /\ caller = "ui"
    /\ FailureKind(lastHttp) = "auth"
    /\ firstFetch = "empty" /\ ~allNone
    /\ sleeps = <<1, 2>>
    /\ outputs.stats.kind = "nodata"

(* C4: the fetcher never raises: whatever the HTTP request did, its       *)
(* result is a snapshot or None, and it is a snapshot only on status 200  *)
C4_FetcherNeverRaises ==
    attempts > 0 =>
        /\ lastFetch.exc = "none"
        /\ ~lastFetch.ret.isNone => (lastHttp.kind = "response" /\ lastHttp.status = 200)
        /\ FailureKind(lastHttp) \in {"auth", "provider", "transport"} => lastFetch.ret.isNone

C4_Witness ==
    /\ attempts > 0
    /\ lastHttp.kind = "response" /\ lastHttp.status = 200
    /\ lastHttp.body.stag = "list"
    /\ \E i \in 1 .. Len(lastHttp.body.states) : Len(lastHttp.body.states[i]) < 12
    /\ lastFetch.exc = "none" /\ lastFetch.ret.isNone

----------------------------------------------------------------------------
(* Properties of the state-array decoding (SpecMap) *)

FieldIndex ==
    [icao24 |-> 0, callsign |-> 1, origin_country |-> 2, time_position |-> 3,
     last_contact |-> 4, longitude |-> 5, latitude |-> 6, geo_altitude |-> 7,
     on_ground |-> 8, velocity |-> 9, true_track |-> 10, vertical_rate |-> 11,
     sensors |-> 12, baro_altitude |-> 13, squawk |-> 14, spi |-> 15,
     position_source |-> 16]

(* C5 as stated: every array of length 0 .. 12 fails to map *)
C5_ShortArraysFail ==
    (mapped.exc # "unset" /\ Len(raw) < 13) => mapped.exc # "none"

(* C5 as amended: every array of length 0 .. 11 fails to map with an      *)
(* IndexError (indices 0-11 are mandatory); an array of length 12 maps to *)
(* a record whose first twelve fields are its elements and whose sensors  *)
(* and later fields are null                                              *)
C5_MandatoryFirstTwelve ==
    mapped.exc # "unset" =>
        /\ Len(raw) < 12 => mapped.exc = "IndexError"
        /\ Len(raw) = 12 =>
              /\ mapped.exc = "none"
              /\ \A f \in DOMAIN FieldIndex :
                    mapped.rec[f] = (IF FieldIndex[f] < 12 THEN raw[FieldIndex[f] + 1]
                                     ELSE <<"null", 0>>)

C5_Witness ==
    /\ Len(raw) = 12 /\ raw[12] = <<"num", 112>>
    /\ mapped.exc = "none" /\ mapped.rec.vertical_rate = <<"num", 112>>
    /\ mapped.rec.sensors = <<"null", 0>>

(* C6: an array of length 13 .. 17 always maps, to a record whose field   *)
(* at index i < length is element i and whose extended fields at or       *)
(* beyond the length are null                                             *)
C6_ExtendedFieldsDefault ==
    (mapped.exc # "unset" /\ Len(raw) \in 13 .. 17) =>
        /\ mapped.exc = "none"
        /\ \A f \in DOMAIN FieldIndex :
              mapped.rec[f] = (IF FieldIndex[f] < Len(raw) THEN raw[FieldIndex[f] + 1]
                               ELSE <<"null", 0>>)

C6_Witness ==
    /\ Len(raw) = 15 /\ raw[15] = <<"num", 115>>
    /\ mapped.exc = "none"
    /\ mapped.rec.squawk = <<"num", 115>>
    /\ mapped.rec.spi = <<"null", 0>>
    /\ mapped.rec.position_source = <<"null", 0>>

----------------------------------------------------------------------------
(* Properties of a refresh: update_map -> create_map *)

RefreshDone == pc = "done" /\ caller = "ui"

(* C7 as stated: a refresh in which every attempt got a well-formed       *)
(* response without records reports 0 aircraft, 0 countries and 0m, with  *)
(* an empty map and an empty chart                                        *)
C7_ZeroRecordsStatistics ==
    (RefreshDone /\ allEmpty) =>
        /\ escaped = "none"
        /\ outputs.stats.kind = "stats"
        /\ outputs.stats.total = 0 /\ outputs.stats.countries = 0
        /\ outputs.stats.avg = <<"num", 0>>
        /\ outputs.map.markers = <<>> /\ outputs.chart.empty

(* C7 as amended: such a refresh shows the "No data available" notice in  *)
(* place of the statistics (no counts, no average), with an empty map and *)
(* an empty chart, and no error                                           *)
C7_ZeroRecordsNotice ==
    (RefreshDone /\ allEmpty) =>
        /\ escaped = "none"
        /\ attempts = 3
        /\ outputs.stats.kind = "nodata"
        /\ outputs.map.kind = "folium"
        /\ outputs.map.markers = <<>> /\ outputs.map.heat = <<>>
        /\ outputs.chart.empty

C7_Witness ==
    /\ RefreshDone /\ allEmpty /\ attempts = 3
    /\ lastHttp.body.stag = "list" /\ lastHttp.body.states = <<>>
    /\ outputs.stats.kind = "nodata"

RECURSIVE AltTotal(_)
AltTotal(S) ==
    IF S = <<>> THEN 0
    ELSE (IF Head(S).geo_altitude[1] = "num" THEN Head(S).geo_altitude[2] ELSE 0)
         + AltTotal(Tail(S))

(* C8: for a non-empty record list whose altitudes are numbers or null,   *)
(* the statistics give the number of records as the total and the mean of *)
(* the non-null altitudes, rounded to an integer, as the average, and 0   *)
(* when no record has an altitude                                         *)
C8_MeanOfNonNull ==
    (RefreshDone /\ ~wrapperResult.isNone
       /\ \A i \in 1 .. Len(wrapperResult.states) :
             wrapperResult.states[i].geo_altitude[1] \in {"null", "num"}) =>
        LET S == wrapperResult.states
            cnt == Cardinality({i \in 1 .. Len(S) : S[i].geo_altitude[1] = "num"})
            avg == outputs.stats.avg
        IN /\ outputs.stats.kind = "stats"
           /\ outputs.stats.total = Len(S)
           /\ cnt = 0 => avg = <<"num", 0>>
           /\ cnt > 0 => (avg[1] = "num" /\ 2 * Abs(avg[2] * cnt - AltTotal(S)) <= cnt)

RECURSIVE WithPosition(_)
(* the records whose latitude and longitude are both non-null *)
WithPosition(S) ==
    IF S = <<>> THEN <<>>
    ELSE IF Head(S).latitude[1] # "null" /\ Head(S).longitude[1] # "null"
         THEN <<Head(S)>> \o WithPosition(Tail(S))
         ELSE WithPosition(Tail(S))

Shown(v) == IF v[1] = "null" THEN <<"N/A", 0>> ELSE v

(* C9: every record with a latitude and a longitude (0 included) gives    *)
(* one heat point (lat, lon, 1) and one marker at (lat, lon), the others  *)
(* none; a popup field is N/A exactly when the field is absent, and the   *)
(* rotation is true_track, or 0 when that is absent                       *)
C9_MarkerPerPositionedRecord ==
    (RefreshDone /\ ~wrapperResult.isNone /\ outputs.stats.kind = "stats") =>
        LET P == WithPosition(wrapperResult.states)
            M == outputs.map.markers
        IN /\ Len(M) = Len(P)
           /\ Len(outputs.map.heat) = Len(P)
           /\ \A k \in 1 .. Len(P) :
                 /\ outputs.map.heat[k] = <<P[k].latitude, P[k].longitude, 1>>
                 /\ M[k].location = <<P[k].latitude, P[k].longitude>>
                 /\ M[k].callsign = Shown(P[k].callsign)
                 /\ M[k].altitude = Shown(P[k].geo_altitude)
                 /\ M[k].velocity = Shown(P[k].velocity)
                 /\ M[k].origin = Shown(P[k].origin_country)
                 /\ M[k].rotation = (IF P[k].true_track[1] = "null" THEN <<"num", 0>>
                                     ELSE P[k].true_track)

(* an exception during rendering: np.mean over a non-numeric altitude *)
RenderingFails ==
    /\ ~wrapperResult.isNone
    /\ \E i \in 1 .. Len(wrapperResult.states) :
          wrapperResult.states[i].geo_altitude[1] \notin {"null", "num"}

Degraded ==
    [map |-> [kind |-> "folium", markers |-> <<>>, heat |-> <<>>, heatLayer |-> FALSE],
     chart |-> [empty |-> TRUE, altitudes |-> <<>>, speeds |-> <<>>, countries |-> {},
                pie |-> <<>>],
     stats |-> [kind |-> "nodata", total |-> 0, countries |-> 0, avg |-> <<"none", 0>>,
                err |-> "none"]]

(* C10 as stated: a refresh never propagates an exception, and both retry *)
(* exhaustion and a rendering exception give the same degraded display:   *)
(* an empty map, an empty chart and the notice                            *)
C10_SameDegradedDisplay ==
    RefreshDone =>
        /\ escaped = "none"
        /\ (wrapperResult.isNone \/ RenderingFails) => outputs = Degraded

(* C10 as amended: a refresh never propagates an exception; retry         *)
(* exhaustion gives an empty map, an empty chart and the "No data         *)
(* available" notice; a rendering exception gives the "Map loading        *)
(* failed" text in place of the map, an empty chart and an "Error: ..."   *)
(* notice naming the exception                                            *)
C10_DegradedDisplays ==
    RefreshDone =>
        /\ escaped = "none"
        /\ wrapperResult.isNone => outputs = Degraded
        /\ RenderingFails =>
              /\ outputs.map.kind = "html" /\ outputs.map.markers = <<>>
              /\ outputs.chart = Degraded.chart
              /\ outputs.stats.kind = "error" /\ outputs.stats.err = "TypeError"
        /\ outputs.stats.kind \in {"nodata", "error"} => outputs.chart.empty

C10_Witness ==
    /\ RefreshDone /\ RenderingFails
    /\ Len(wrapperResult.states) = 2
    /\ outputs.stats.kind = "error" /\ outputs.map.kind = "html"
    /\ escaped = "none"

====
